---- MODULE Spec2Model ----
(***************************************************************************)
(* The challenge-assignment state machine of the Orlando Challenge App     *)
(* backend (Go, database/sql over SQLite).                                 *)
(*                                                                         *)
(* State: the rows of the tables challenges, posts and                     *)
(* challenge_submissions, the clock the SQL CURRENT_TIMESTAMP reads, the   *)
(* PickChallenge requests that are between two of their statements, and    *)
(* the response of the handler that has just returned.                     *)
(*                                                                         *)
(* Granularity.  PickChallenge issues its statements on h.db directly,     *)
(* each one its own implicit transaction, so other requests interleave     *)
(* between them: it is modelled as three steps.  CancelChallenge reads     *)
(* challenge_type (never written by the handlers modelled here) and then   *)
(* issues one UPDATE or DELETE: one step.  CompleteChallenge,              *)
(* AwardChallenge, DeletePost and RevokePostPoints run inside tx :=        *)
(* h.db.Begin() ... tx.Commit() on SQLite, whose transactions are          *)
(* serializable (a transaction that read a row another connection has      *)
(* since written cannot commit a write): one step each in Spec, and        *)
(* statement by statement, with the locks they hold, in SpecTx.            *)
(***************************************************************************)
EXTENDS Integers, FiniteSets, Sequences, Bags, TLC

\* ---------------------------------------------------------------- bounds
MaxPosts == 3
MaxTime == 1
MaxInFlight == 1
MaxTx == 2
MaxTxPosts == 2

\* ------------------------------------------------------------ fixed data
\* the non-admin rows of the users table
Users == {"A", "B"}
NULL == "NULL"
\* the clients of the pick race: three users, one of them on two devices
Clients == {"A1", "A2", "B1", "C1"}
UserOf == ("A1" :> "A") @@ ("A2" :> "A") @@ ("B1" :> "B") @@ ("C1" :> "C")
\* post_id 0 is the "no post yet" value of challenge_submissions.post_id;
\* the model also writes a NULL completed_post_id as NoPost (post ids start at 1)
NoPost == 0

\* the challenge rows a deployment may load: two exclusive, one open
Catalog == {1, 2, 3}
challenge_type == (1 :> "exclusive") @@ (2 :> "exclusive") @@ (3 :> "open")
points == (1 :> 50) @@ (2 :> 100) @@ (3 :> 30)
\* start_date / end_date: {} is NULL, {t} is the instant t
start_date == (1 :> {}) @@ (2 :> {1}) @@ (3 :> {})
end_date == (1 :> {0}) @@ (2 :> {}) @@ (3 :> {0})
\* the contents of the challenges table when the handlers start
Seeds == {{1}, {3}}

VARIABLES challenges, posts, post_seq, submissions, pending, now, last, calls
vars == <<challenges, posts, post_seq, submissions, pending, now, last, calls>>

\* the ids of the rows of the challenges table
Challenges == DOMAIN challenges

\* a freshly inserted challenges row
NewChallenge ==
    [status |-> "available", assigned_to |-> NULL,
     completed_by |-> NULL, completed_post_id |-> NoPost]

None == [op |-> "None"]

\* (start_date IS NULL OR start_date <= CURRENT_TIMESTAMP)
\* AND (end_date IS NULL OR end_date >= CURRENT_TIMESTAMP)
InWindow(c) ==
    /\ \A s \in start_date[c] : s <= now
    /\ \A e \in end_date[c] : e >= now

\* SELECT ... FROM challenge_submissions WHERE challenge_id = c AND user_id = u
SubmissionsOf(c, u) ==
    {s \in submissions : s.challenge_id = c /\ s.user_id = u}

Init ==
    /\ \E S \in Seeds : challenges = [c \in S |-> NewChallenge]
    /\ posts = {}
    /\ post_seq = 0
    /\ submissions = {}
    /\ pending = EmptyBag
    /\ now = 0
    /\ last = None
    /\ calls = [k \in Clients |-> "idle"]

\* the handler returns: its response is recorded, nothing else changes
Respond(r) ==
    /\ last' = r
    /\ UNCHANGED <<challenges, posts, post_seq, submissions, now>>

PickResp(u, c, code) ==
    [op |-> "Pick", user |-> u, challenge |-> c, code |-> code]

Req(u, c, pc) == [user |-> u, challenge |-> c, pc |-> pc]

\* PickChallenge, first statement: the challenge row inside its window,
\* then the status test
PickBeginStep(u, c) ==
    /\ c \in Challenges
    /\ IF ~InWindow(c)
       THEN Respond(PickResp(u, c, "NotFound")) /\ UNCHANGED pending
       ELSE IF challenges[c].status # "available"
       THEN Respond(PickResp(u, c, "NotAvailable")) /\ UNCHANGED pending
       ELSE /\ pending' = pending (+) SetToBag({Req(u, c, "check")})
            /\ last' = None
            /\ UNCHANGED <<challenges, posts, post_seq, submissions, now>>

\* PickChallenge, second statement: COUNT(*) of the caller's submission
\* (open) or of the caller's own assignment (exclusive)
PickCheckStep(u, c) ==
    /\ BagIn(Req(u, c, "check"), pending)
    /\ LET rest == pending (-) SetToBag({Req(u, c, "check")})
           found == IF challenge_type[c] = "open"
                    THEN SubmissionsOf(c, u) # {}
                    ELSE challenges[c].assigned_to = u
       IN IF found
          THEN /\ pending' = rest
               /\ Respond(PickResp(u, c, IF challenge_type[c] = "open"
                                         THEN "AlreadyJoined"
                                         ELSE "AlreadyAssigned"))
          ELSE /\ pending' = rest (+) SetToBag({Req(u, c, "exec")})
               /\ last' = None
               /\ UNCHANGED <<challenges, posts, post_seq, submissions, now>>

\* the pick written as read-then-write: the UPDATE no longer tests the row
PickUpdateMatches_NoCas(c) == InWindow(c)

\* the conditional UPDATE of the exclusive pick: the rows it matches
PickUpdateMatches(c) ==
    /\ challenges[c].assigned_to = NULL
    /\ challenges[c].status = "available"
    /\ InWindow(c)

\* the pick without its open branch: every challenge goes through the
\* conditional UPDATE
PickExecStep_AssignsOpen(u, c) ==
    /\ BagIn(Req(u, c, "exec"), pending)
    /\ pending' = pending (-) SetToBag({Req(u, c, "exec")})
    /\ UNCHANGED <<posts, post_seq, submissions, now>>
    /\ IF PickUpdateMatches(c)
       THEN /\ challenges' = [challenges EXCEPT
                  ![c].assigned_to = u, ![c].status = "in_progress"]
            /\ last' = PickResp(u, c, "OK")
       ELSE /\ UNCHANGED challenges
            /\ last' = PickResp(u, c, "AlreadyTaken")

\* PickChallenge, third statement: INSERT of the submission (open), which
\* UNIQUE(challenge_id, user_id) may refuse, or the conditional UPDATE
PickExecStep(u, c) ==
    /\ BagIn(Req(u, c, "exec"), pending)
    /\ pending' = pending (-) SetToBag({Req(u, c, "exec")})
    /\ UNCHANGED <<posts, post_seq, now>>
    /\ IF challenge_type[c] = "open"
       THEN /\ UNCHANGED challenges
            /\ IF SubmissionsOf(c, u) # {}
               THEN /\ UNCHANGED submissions
                    /\ last' = PickResp(u, c, "JoinFailed")
               ELSE /\ submissions' = submissions \cup
                          {[challenge_id |-> c, user_id |-> u, post_id |-> NoPost]}
                    /\ last' = PickResp(u, c, "OK")
       ELSE /\ UNCHANGED submissions
            /\ IF PickUpdateMatches(c)
               THEN /\ challenges' = [challenges EXCEPT
                          ![c].assigned_to = u, ![c].status = "in_progress"]
                    /\ last' = PickResp(u, c, "OK")
               ELSE /\ UNCHANGED challenges
                    /\ last' = PickResp(u, c, "AlreadyTaken")

\* a request of any user, at any time; at most MaxInFlight of them are
\* between two statements
PickBegin(u, c) ==
    /\ BagCardinality(pending) < MaxInFlight
    /\ PickBeginStep(u, c)
    /\ UNCHANGED calls
PickCheck(u, c) == PickCheckStep(u, c) /\ UNCHANGED calls
PickExec(u, c) == PickExecStep(u, c) /\ UNCHANGED calls

\* CURRENT_TIMESTAMP moves on
Tick ==
    /\ now < MaxTime
    /\ now' = now + 1
    /\ last' = None
    /\ UNCHANGED <<challenges, posts, post_seq, submissions, pending, calls>>

CancelResp(u, c, code) ==
    [op |-> "Cancel", user |-> u, challenge |-> c, code |-> code]

\* the rows the exclusive cancel's UPDATE matches: WHERE id = c AND assigned_to = u
CancelUpdateMatches(u, c) == challenges[c].assigned_to = u

\* the DELETE without AND post_id = 0: a submitted entry can be withdrawn
CancelDeleteMatches_AnyRow(u, c) == SubmissionsOf(c, u)

\* the rows the open cancel's DELETE matches: ... AND post_id = 0
CancelDeleteMatches(u, c) ==
    {s \in SubmissionsOf(c, u) : s.post_id = NoPost}

CancelChallenge(u, c) ==
    /\ UNCHANGED <<posts, post_seq, pending, now, calls>>
    /\ IF challenge_type[c] = "open"
       THEN /\ submissions' = submissions \ CancelDeleteMatches(u, c)
            /\ UNCHANGED challenges
            /\ last' = CancelResp(u, c, IF CancelDeleteMatches(u, c) = {}
                                        THEN "NotYours" ELSE "OK")
       ELSE /\ UNCHANGED submissions
            /\ IF CancelUpdateMatches(u, c)
               THEN /\ challenges' = [challenges EXCEPT
                          ![c].assigned_to = NULL, ![c].status = "available"]
                    /\ last' = CancelResp(u, c, "OK")
               ELSE /\ UNCHANGED challenges
                    /\ last' = CancelResp(u, c, "NotYours")

CompleteResp(u, c, p, earned, code) ==
    [op |-> "Complete", user |-> u, challenge |-> c, post |-> p,
     points_earned |-> earned, code |-> code]

\* the check forgetting whose assignment it is
AssignedChallenge_AnyAssignee(u, c) ==
    challenges[c].status = "in_progress"

\* COUNT(*) FROM challenges WHERE id = c AND assigned_to = u AND status = 'in_progress'
AssignedChallenge(u, c) ==
    /\ challenges[c].assigned_to = u
    /\ challenges[c].status = "in_progress"

\* the challenges row an exclusive completion writes
CompletedRow(u, p) ==
    [status |-> "completed", assigned_to |-> NULL,
     completed_by |-> u, completed_post_id |-> p]

\* the checks of CompleteChallenge: the response code they lead to
CompleteReads(u, c) ==
    IF challenge_type[c] = "exclusive"
    THEN IF ~AssignedChallenge(u, c) THEN "NotAssigned" ELSE "OK"
    ELSE IF SubmissionsOf(c, u) = {} THEN "NotJoined"
    ELSE IF \E s \in SubmissionsOf(c, u) : s.post_id > 0 THEN "AlreadySubmitted"
    ELSE "OK"

\* the write statements of CompleteChallenge: INSERT INTO posts, then the
\* UPDATE of the challenge (exclusive) or of the submission (open)
CompleteWrites(u, c) ==
    LET p == post_seq + 1
        newPost == [id |-> p, user_id |-> u, challenge_id |-> c, revoked |-> FALSE]
    IN /\ posts' = posts \cup {newPost}
       /\ post_seq' = p
       /\ IF challenge_type[c] = "exclusive"
          THEN /\ challenges' = [challenges EXCEPT ![c] = CompletedRow(u, p)]
               /\ UNCHANGED submissions
               /\ last' = CompleteResp(u, c, p, points[c], "OK")
          ELSE /\ submissions' = (submissions \ SubmissionsOf(c, u)) \cup
                     {[s EXCEPT !.post_id = p] : s \in SubmissionsOf(c, u)}
               /\ UNCHANGED challenges
               /\ last' = CompleteResp(u, c, p, 0, "OK")

CompleteChallenge(u, c) ==
    /\ post_seq < MaxPosts
    /\ UNCHANGED <<pending, now, calls>>
    /\ IF CompleteReads(u, c) # "OK"
       THEN Respond(CompleteResp(u, c, NoPost, 0, CompleteReads(u, c)))
       ELSE CompleteWrites(u, c)

UnassignResp(c, code) == [op |-> "Unassign", challenge |-> c, code |-> code]

UnassignChallenge(c) ==
    /\ UNCHANGED <<posts, post_seq, submissions, pending, now, calls>>
    /\ IF challenges[c].status = "in_progress"
       THEN /\ challenges' = [challenges EXCEPT
                  ![c].assigned_to = NULL, ![c].status = "available"]
            /\ last' = UnassignResp(c, "OK")
       ELSE /\ UNCHANGED challenges
            /\ last' = UnassignResp(c, "NotAssigned")

AwardResp(c, u, code) ==
    [op |-> "Award", challenge |-> c, user |-> u, code |-> code]

\* the query without AND post_id > 0: a joined user counts as a submitter
SubmittedPosts_AnyRow(c, u) ==
    {s.post_id : s \in SubmissionsOf(c, u)}

\* SELECT post_id FROM challenge_submissions WHERE ... AND post_id > 0
SubmittedPosts(c, u) ==
    {s.post_id : s \in {t \in SubmissionsOf(c, u) : t.post_id > 0}}

\* the checks of AwardChallenge: the response code they lead to
AwardReads(c, u) ==
    IF challenge_type[c] # "open" THEN "NotOpen"
    ELSE IF challenges[c].status = "completed" THEN "AlreadyAwarded"
    ELSE IF SubmittedPosts(c, u) = {} THEN "NoSubmission"
    ELSE "OK"

\* the write statement of AwardChallenge, p being the post_id it read
AwardWrites(c, u, p) ==
    /\ challenges' = [challenges EXCEPT
          ![c].status = "completed", ![c].completed_by = u,
          ![c].completed_post_id = p]
    /\ last' = AwardResp(c, u, "OK")

AwardChallenge(c, u) ==
    /\ UNCHANGED <<posts, post_seq, submissions, pending, now, calls>>
    /\ IF AwardReads(c, u) # "OK"
       THEN /\ UNCHANGED challenges /\ last' = AwardResp(c, u, AwardReads(c, u))
       ELSE \E p \in SubmittedPosts(c, u) : AwardWrites(c, u, p)

\* the post ids a request may name: every id handed out so far, one never used
PostIds == 1..(post_seq + 1)

PostRows(p) == {r \in posts : r.id = p}

RevokeResp(p, c, code) ==
    [op |-> "Revoke", post |-> p, challenge |-> c, code |-> code]

\* the challenges row RevokePostPoints writes
RevokedRow(row) ==
    [row EXCEPT !.assigned_to = NULL, !.status = "available",
                !.completed_by = NULL, !.completed_post_id = NoPost]

\* the transaction never committed: the response is sent, no row changes
RevokePostPoints_NoCommit(p) ==
    /\ UNCHANGED <<challenges, posts, post_seq, submissions, pending, now, calls>>
    /\ last' = IF PostRows(p) = {}
               THEN [op |-> "Revoke", post |-> p, code |-> "NotFound"]
               ELSE RevokeResp(p, (CHOOSE r \in PostRows(p) : TRUE).challenge_id, "OK")

\* the revoke deleting the post row instead of flagging it
RevokePostPoints_HardDelete(p) ==
    /\ UNCHANGED <<post_seq, submissions, pending, now, calls>>
    /\ IF PostRows(p) = {}
       THEN /\ UNCHANGED <<challenges, posts>>
            /\ last' = [op |-> "Revoke", post |-> p, code |-> "NotFound"]
       ELSE \E r \in PostRows(p) :
               /\ challenges' = [challenges EXCEPT
                     ![r.challenge_id] = RevokedRow(challenges[r.challenge_id])]
               /\ posts' = posts \ {r}
               /\ last' = RevokeResp(p, r.challenge_id, "OK")

\* the revoke written as a toggle: SET revoked = NOT revoked
RevokePostPoints_Toggle(p) ==
    /\ UNCHANGED <<post_seq, submissions, pending, now, calls>>
    /\ IF PostRows(p) = {}
       THEN /\ UNCHANGED <<challenges, posts>>
            /\ last' = [op |-> "Revoke", post |-> p, code |-> "NotFound"]
       ELSE \E r \in PostRows(p) :
               /\ challenges' = [challenges EXCEPT
                     ![r.challenge_id] = RevokedRow(challenges[r.challenge_id])]
               /\ posts' = (posts \ {r}) \cup {[r EXCEPT !.revoked = ~r.revoked]}
               /\ last' = RevokeResp(p, r.challenge_id, "OK")

\* the write statements of RevokePostPoints, c being the challenge_id it
\* read from the post: UPDATE challenges ... WHERE id = c, then
\* UPDATE posts SET revoked = TRUE WHERE id = p
RevokeWrites(p, c) ==
    /\ challenges' = [challenges EXCEPT ![c] = RevokedRow(challenges[c])]
    /\ posts' = {IF r.id = p THEN [r EXCEPT !.revoked = TRUE] ELSE r : r \in posts}
    /\ last' = RevokeResp(p, c, "OK")

RevokePostPoints(p) ==
    /\ UNCHANGED <<post_seq, submissions, pending, now, calls>>
    /\ IF PostRows(p) = {}
       THEN /\ UNCHANGED <<challenges, posts>>
            /\ last' = [op |-> "Revoke", post |-> p, code |-> "NotFound"]
       ELSE \E r \in PostRows(p) : RevokeWrites(p, r.challenge_id)

DeleteResp(p, u, c, code) ==
    [op |-> "DeletePost", post |-> p, user |-> u, challenge |-> c, code |-> code]

\* DeletePost forgetting to clear the assignee
DeletedRow_KeepAssignee(row) ==
    [row EXCEPT !.status = "available"]

\* the challenges row DeletePost writes
DeletedRow(row) ==
    [row EXCEPT !.assigned_to = NULL, !.status = "available"]

\* the delete without AND p.user_id = ? in its SELECT
DeletePost_AnyUser(p, u) ==
    /\ UNCHANGED <<post_seq, submissions, pending, now, calls>>
    /\ IF PostRows(p) = {}
       THEN /\ UNCHANGED <<challenges, posts>>
            /\ last' = [op |-> "DeletePost", post |-> p, user |-> u,
                        code |-> "NotFound"]
       ELSE \E r \in PostRows(p) :
               /\ posts' = posts \ {r}
               /\ challenges' = [challenges EXCEPT
                     ![r.challenge_id] = DeletedRow(challenges[r.challenge_id])]
               /\ last' = DeleteResp(p, u, r.challenge_id, "OK")

\* the rows DeletePost's SELECT finds: WHERE p.id = ? AND p.user_id = ?
OwnedPostRows(p, u) == {r \in PostRows(p) : r.user_id = u}

\* the write statements of DeletePost, c being the challenge_id it read:
\* DELETE FROM posts WHERE id = p, then UPDATE challenges ... WHERE id = c
DeleteWrites(p, u, c) ==
    /\ posts' = {r \in posts : r.id # p}
    /\ challenges' = [challenges EXCEPT ![c] = DeletedRow(challenges[c])]
    /\ last' = DeleteResp(p, u, c, "OK")

DeletePost(p, u) ==
    /\ UNCHANGED <<post_seq, submissions, pending, now, calls>>
    /\ IF OwnedPostRows(p, u) = {}
       THEN /\ UNCHANGED <<challenges, posts>>
            /\ last' = [op |-> "DeletePost", post |-> p, user |-> u,
                        code |-> "NotFound"]
       ELSE \E r \in OwnedPostRows(p, u) : DeleteWrites(p, u, r.challenge_id)

\* the CASE without the completed_by test of its open branch: every
\* submitter of an awarded open challenge is credited
ScoringRows_AnySubmitter(u) ==
    {p \in posts :
        /\ p.user_id = u
        /\ ~p.revoked
        /\ p.challenge_id \in Challenges
        /\ challenges[p.challenge_id].status = "completed"}

\* ------------------------------------------------- the scoring projection
\* the rows of  users u LEFT JOIN posts p ON u.id = p.user_id AND
\* p.revoked = FALSE LEFT JOIN challenges c ON p.challenge_id = c.id  that
\* satisfy the CASE of GetProfile and GetLeaderboard
ScoringRows(u) ==
    {p \in posts :
        /\ p.user_id = u
        /\ ~p.revoked
        /\ p.challenge_id \in Challenges
        /\ challenges[p.challenge_id].status = "completed"
        /\ \/ challenge_type[p.challenge_id] = "exclusive"
           \/ /\ challenge_type[p.challenge_id] = "open"
              /\ challenges[p.challenge_id].completed_by = u}

RECURSIVE SumPoints(_)
SumPoints(rows) ==
    IF rows = {} THEN 0
    ELSE LET r == CHOOSE x \in rows : TRUE
         IN points[r.challenge_id] + SumPoints(rows \ {r})

\* SUM(CASE ... THEN c.points ELSE 0 END)
total_points(u) == SumPoints(ScoringRows(u))

\* COUNT(CASE ... THEN p.id ELSE NULL END)
challenges_completed(u) == Cardinality(ScoringRows(u))

\* the rows of u's total that come from challenge c
CreditedRows(u, c) == {p \in ScoringRows(u) : p.challenge_id = c}

Next ==
    \/ \E u \in Users, c \in Challenges : PickBegin(u, c)
    \/ \E u \in Users, c \in Challenges : PickCheck(u, c)
    \/ \E u \in Users, c \in Challenges : PickExec(u, c)
    \/ \E u \in Users, c \in Challenges : CancelChallenge(u, c)
    \/ \E u \in Users, c \in Challenges : CompleteChallenge(u, c)
    \/ \E c \in Challenges : UnassignChallenge(c)
    \/ \E c \in Challenges, u \in Users : AwardChallenge(c, u)
    \/ \E p \in PostIds : RevokePostPoints(p)
    \/ \E p \in PostIds, u \in Users : DeletePost(p, u)
    \/ Tick

Spec == Init /\ [][Next]_vars

\* ------------------------------------------ two exclusive challenges
\* both exclusive challenges are loaded; the users pick, cancel and complete
\* while the clock moves
InitTwo ==
    /\ challenges = [c \in {1, 2} |-> NewChallenge]
    /\ posts = {}
    /\ post_seq = 0
    /\ submissions = {}
    /\ pending = EmptyBag
    /\ now = 0
    /\ last = None
    /\ calls = [k \in Clients |-> "idle"]

NextTwo ==
    \/ \E u \in Users, c \in Challenges : PickBegin(u, c)
    \/ \E u \in Users, c \in Challenges : PickCheck(u, c)
    \/ \E u \in Users, c \in Challenges : PickExec(u, c)
    \/ \E u \in Users, c \in Challenges : CancelChallenge(u, c)
    \/ \E u \in Users, c \in Challenges : CompleteChallenge(u, c)
    \/ Tick

SpecTwo == InitTwo /\ [][NextTwo]_vars

\* ------------------------------------------------------- the pick race
\* the clients each send one PickChallenge for the loaded challenge, all at
\* once, and nothing else runs; calls[k] is "idle", then "running", then the
\* response k received

InitRace ==
    /\ \E S \in Seeds : challenges = [c \in S |-> NewChallenge]
    /\ posts = {}
    /\ post_seq = 0
    /\ submissions = {}
    /\ pending = EmptyBag
    /\ now = 0
    /\ last = None
    /\ calls = [k \in Clients |-> "idle"]

Track(k) ==
    calls' = [calls EXCEPT ![k] = IF last' = None THEN "running" ELSE last'.code]

RacePickBegin(k, c) ==
    calls[k] = "idle" /\ PickBeginStep(UserOf[k], c) /\ Track(k)
RacePickCheck(k, c) ==
    calls[k] = "running" /\ PickCheckStep(UserOf[k], c) /\ Track(k)
RacePickExec(k, c) ==
    calls[k] = "running" /\ PickExecStep(UserOf[k], c) /\ Track(k)

NextRace ==
    \/ \E k \in Clients, c \in Challenges : RacePickBegin(k, c)
    \/ \E k \in Clients, c \in Challenges : RacePickCheck(k, c)
    \/ \E k \in Clients, c \in Challenges : RacePickExec(k, c)

SpecPickRace == InitRace /\ [][NextRace]_vars

\* ------------------------------------------- transactions, by statement
\* The four handlers that run in a transaction, one step per group of
\* statements.  tx := h.db.Begin() takes a connection of the pool; the store
\* is a SQLite file in rollback-journal mode (sql.Open("sqlite3", path), no
\* options).  A transaction holds the SHARED lock from its first SELECT and
\* the RESERVED lock from its first write, both until Commit or Rollback:
\*   - it reads the committed rows, which cannot change while it holds SHARED;
\*   - its first write fails at once (SQLITE_BUSY, "database is locked") if
\*     another connection holds RESERVED: the handler answers 500 and the
\*     deferred Rollback runs;
\*   - Commit waits until no other connection holds SHARED, then publishes
\*     all its writes together;
\*   - a statement outside a transaction (PickChallenge's, CancelChallenge's,
\*     UnassignChallenge's UPDATE, INSERT or DELETE) waits for the locks.
\* A statement may also fail for a reason of its own (err != nil): 500 and
\* the deferred Rollback.

\* a request inside its transaction; pc is "read" after the SELECTs,
\* "written" after the first write
TxReq(op, u, c, p, pc) ==
    [op |-> op, user |-> u, challenge |-> c, post |-> p, pc |-> pc]

\* the requests that hold the SHARED lock
Transactions == {t \in BagToSet(pending) : t.pc \in {"read", "written"}}

\* the requests that hold the RESERVED lock
Writers == {t \in Transactions : t.pc = "written"}

\* the store publishing a commit while other connections still read
CommitExclusive_ReadCommitted(t) == t \in Writers

\* Commit's EXCLUSIVE lock: no other connection holds SHARED
CommitExclusive(t) ==
    /\ t \in Writers
    /\ Transactions = {t}
    /\ CopiesIn(t, pending) = 1

\* a write outside a transaction going ahead under a reader's SHARED lock
AutocommitWrite_NoWait(c) == c \in Challenges

\* a write outside a transaction gets through once no transaction holds a lock
AutocommitWrite(c) == c \in Challenges /\ Transactions = {}

TxResp(t, code) ==
    IF t.op = "Complete" THEN CompleteResp(t.user, t.challenge, NoPost, 0, code)
    ELSE IF t.op = "Award" THEN AwardResp(t.challenge, t.user, code)
    ELSE IF t.op = "Revoke" THEN RevokeResp(t.post, t.challenge, code)
    ELSE DeleteResp(t.post, t.user, t.challenge, code)

\* the transaction is open and has passed its checks
TxEnter(t) ==
    /\ pending' = pending (+) SetToBag({t})
    /\ last' = None
    /\ UNCHANGED <<challenges, posts, post_seq, submissions, now, calls>>

CompleteBegin(u, c) ==
    /\ BagCardinality(pending) < MaxTx
    /\ post_seq < MaxTxPosts
    /\ IF CompleteReads(u, c) # "OK"
       THEN /\ Respond(CompleteResp(u, c, NoPost, 0, CompleteReads(u, c)))
            /\ UNCHANGED <<pending, calls>>
       ELSE TxEnter(TxReq("Complete", u, c, NoPost, "read"))

AwardBegin(c, u) ==
    /\ BagCardinality(pending) < MaxTx
    /\ IF AwardReads(c, u) # "OK"
       THEN /\ Respond(AwardResp(c, u, AwardReads(c, u)))
            /\ UNCHANGED <<pending, calls>>
       ELSE \E p \in SubmittedPosts(c, u) : TxEnter(TxReq("Award", u, c, p, "read"))

RevokeBegin(p) ==
    /\ BagCardinality(pending) < MaxTx
    /\ IF PostRows(p) = {}
       THEN /\ Respond([op |-> "Revoke", post |-> p, code |-> "NotFound"])
            /\ UNCHANGED <<pending, calls>>
       ELSE \E r \in PostRows(p) :
               TxEnter(TxReq("Revoke", NULL, r.challenge_id, p, "read"))

DeleteBegin(p, u) ==
    /\ BagCardinality(pending) < MaxTx
    /\ IF OwnedPostRows(p, u) = {}
       THEN /\ Respond([op |-> "DeletePost", post |-> p, user |-> u,
                        code |-> "NotFound"])
            /\ UNCHANGED <<pending, calls>>
       ELSE \E r \in OwnedPostRows(p, u) :
               TxEnter(TxReq("DeletePost", u, r.challenge_id, p, "read"))

\* the first write of a transaction: the RESERVED lock, or SQLITE_BUSY
TxWrite(t) ==
    /\ t \in Transactions /\ t.pc = "read"
    /\ UNCHANGED calls
    /\ IF Writers # {}
       THEN /\ pending' = pending (-) SetToBag({t})
            /\ Respond(TxResp(t, "Busy"))
       ELSE /\ pending' = (pending (-) SetToBag({t})) (+)
                              SetToBag({[t EXCEPT !.pc = "written"]})
            /\ last' = None
            /\ UNCHANGED <<challenges, posts, post_seq, submissions, now>>

\* a statement of the transaction fails: 500, the deferred Rollback
TxFail(t) ==
    /\ t \in Transactions
    /\ pending' = pending (-) SetToBag({t})
    /\ Respond(TxResp(t, "Failed"))
    /\ UNCHANGED calls

\* tx.Commit(): the writes of the transaction become the committed rows
TxCommit(t) ==
    /\ CommitExclusive(t)
    /\ pending' = pending (-) SetToBag({t})
    /\ UNCHANGED <<now, calls>>
    /\ IF t.op = "Complete"
       THEN CompleteWrites(t.user, t.challenge)
       ELSE IF t.op = "Award"
       THEN /\ AwardWrites(t.challenge, t.user, t.post)
            /\ UNCHANGED <<posts, post_seq, submissions>>
       ELSE IF t.op = "Revoke"
       THEN /\ RevokeWrites(t.post, t.challenge)
            /\ UNCHANGED <<post_seq, submissions>>
       ELSE /\ DeleteWrites(t.post, t.user, t.challenge)
            /\ UNCHANGED <<post_seq, submissions>>

TxPickExec(u, c) == AutocommitWrite(c) /\ PickExec(u, c)
TxCancel(u, c) == AutocommitWrite(c) /\ CancelChallenge(u, c)
TxUnassign(c) == AutocommitWrite(c) /\ UnassignChallenge(c)

NextTx ==
    \/ \E u \in Users, c \in Challenges : PickBegin(u, c)
    \/ \E u \in Users, c \in Challenges : PickCheck(u, c)
    \/ \E u \in Users, c \in Challenges : TxPickExec(u, c)
    \/ \E u \in Users, c \in Challenges : TxCancel(u, c)
    \/ \E c \in Challenges : TxUnassign(c)
    \/ \E u \in Users, c \in Challenges : CompleteBegin(u, c)
    \/ \E c \in Challenges, u \in Users : AwardBegin(c, u)
    \/ \E p \in PostIds : RevokeBegin(p)
    \/ \E p \in PostIds, u \in Users : DeleteBegin(p, u)
    \/ \E t \in Transactions : TxWrite(t)
    \/ \E t \in Transactions : TxFail(t)
    \/ \E t \in Transactions : TxCommit(t)

SpecTx == Init /\ [][NextTx]_vars

\* ------------------------------------------------------------- properties
Exclusive(c) == challenge_type[c] = "exclusive"
Open(c) == challenge_type[c] = "open"
AllUsers == Users \cup {UserOf[k] : k \in Clients}
Succeeded(op) == last.op = op /\ last.code = "OK"

Called == {k \in Clients : calls[k] # "idle"}
Returned == {k \in Clients : calls[k] \notin {"idle", "running"}}
Winners == {k \in Clients : calls[k] = "OK"}
DistinctUsers(K) == \A j, k \in K : UserOf[j] = UserOf[k] => j = k
\* the two responses PickChallenge sends with http.StatusConflict
Conflict == {"NotAvailable", "AlreadyTaken"}

\* C1: of N >= 2 distinct users racing to pick one available exclusive
\* challenge inside its window, exactly one succeeds and becomes assigned_to
\* with status in_progress; every other call fails with a conflict, and the
\* row is only ever the untouched row or the winner's
C1_ExactlyOnePickWins ==
    \A c \in Challenges :
        Exclusive(c) /\ InWindow(c) /\ DistinctUsers(Called) =>
            /\ Cardinality(Winners) <= 1
            /\ \A k \in Returned \ Winners : calls[k] \in Conflict
            /\ (Returned = Called /\ Called # {}) => Cardinality(Winners) = 1
            /\ \A w \in Winners :
                  challenges[c] = [NewChallenge EXCEPT
                      !.assigned_to = UserOf[w], !.status = "in_progress"]
            /\ Winners = {} => challenges[c] = NewChallenge

\* three distinct users have called and returned, and a loser got as far as
\* the conditional UPDATE
C1_Witness ==
    \E c \in Challenges :
        /\ Exclusive(c) /\ InWindow(c)
        /\ DistinctUsers(Called)
        /\ Cardinality(Called) = 3
        /\ Returned = Called
        /\ \E k \in Returned : calls[k] = "AlreadyTaken"

\* C2 (I1): in every reachable state an exclusive challenge has an assignee
\* exactly when its status is in_progress
C2_AssignedIffInProgress ==
    \A c \in Challenges :
        Exclusive(c) =>
            (challenges[c].assigned_to # NULL <=> challenges[c].status = "in_progress")

\* an exclusive challenge is held again after an earlier completion of it was
\* revoked
C2_Witness ==
    \E c \in Challenges :
        /\ Exclusive(c)
        /\ challenges[c].status = "in_progress"
        /\ challenges[c].assigned_to \in Users
        /\ \E p \in posts : p.challenge_id = c /\ p.revoked

\* C3 (I2): completed_by and completed_post_id are both set exactly when the
\* status is completed, and both are NULL otherwise
C3_CompletedFieldsIffCompleted ==
    \A c \in Challenges :
        IF challenges[c].status = "completed"
        THEN challenges[c].completed_by # NULL /\ challenges[c].completed_post_id # NoPost
        ELSE challenges[c].completed_by = NULL /\ challenges[c].completed_post_id = NoPost

\* C4 (I4): right after a successful RevokePostPoints or DeletePost the post's
\* challenge has assigned_to, completed_by and completed_post_id all NULL
C4_ReopenClearsAllThree ==
    (Succeeded("Revoke") \/ Succeeded("DeletePost")) =>
        /\ challenges[last.challenge].assigned_to = NULL
        /\ challenges[last.challenge].completed_by = NULL
        /\ challenges[last.challenge].completed_post_id = NoPost

\* C5: a user has at most one submission row per open challenge, and a pick
\* by a user who already has the row (the challenge being joinable: in its
\* window, not completed) answers AlreadyJoined and inserts nothing
C5_SecondJoinIsAlreadyJoined ==
    /\ [](\A c \in Challenges, u \in AllUsers : Cardinality(SubmissionsOf(c, u)) <= 1)
    /\ [][\A c \in Challenges, u \in AllUsers :
            ( /\ Open(c) /\ InWindow(c) /\ challenges[c].status # "completed"
              /\ SubmissionsOf(c, u) # {}
              /\ last'.op = "Pick" /\ last'.user = u /\ last'.challenge = c )
            => (last'.code = "AlreadyJoined" /\ submissions' = submissions)]_vars

\* C6: right after a successful exclusive completion the completer's computed
\* stats include the new post's challenge and its points; right after a
\* successful revoke of a post of an exclusive challenge nobody's stats
\* include that challenge
C6_PointsFollowCompleteAndRevoke ==
    /\ (Succeeded("Complete") /\ Exclusive(last.challenge)) =>
          /\ \E r \in CreditedRows(last.user, last.challenge) : r.id = last.post
          /\ total_points(last.user) >= points[last.challenge]
          /\ challenges_completed(last.user) >= 1
          /\ last.points_earned = points[last.challenge]
    /\ (Succeeded("Revoke") /\ Exclusive(last.challenge)) =>
          \A u \in Users :
              /\ CreditedRows(u, last.challenge) = {}
              /\ total_points(u) = 0

\* the only post ever created, A's completion of the exclusive challenge, has
\* just been revoked
C6_Witness ==
    /\ Succeeded("Revoke")
    /\ post_seq = 1
    /\ posts = {[id |-> 1, user_id |-> "A", challenge_id |-> last.challenge,
                 revoked |-> TRUE]}
    /\ Exclusive(last.challenge)

\* C7: right after a successful award to W the open challenge is completed by
\* W with W's submitted post, W's stats include its points and no other
\* user's do
C7_OnlyWinnerCredited ==
    Succeeded("Award") =>
        LET c == last.challenge
            w == last.user
        IN /\ challenges[c].status = "completed"
           /\ challenges[c].completed_by = w
           /\ challenges[c].completed_post_id \in SubmittedPosts(c, w)
           /\ CreditedRows(w, c) # {}
           /\ total_points(w) >= points[c]
           /\ \A u \in Users \ {w} : CreditedRows(u, c) = {}

\* C8: when the owner deletes the post that completed an exclusive challenge,
\* the challenge is available again with assigned_to, completed_by and
\* completed_post_id NULL, the owner is no longer credited for it, and the
\* conditional UPDATE of a pick issued next (inside the window) matches
C8_DeleteReopensExclusive ==
    [][\A c \in Challenges, u \in Users :
         ( /\ Exclusive(c)
           /\ challenges[c].status = "completed"
           /\ last' = DeleteResp(challenges[c].completed_post_id, u, c, "OK") )
         => /\ challenges'[c] = NewChallenge
            /\ CreditedRows(u, c)' = {}
            /\ (InWindow(c) => PickUpdateMatches(c)')]_vars

\* C9: no user is the assignee of two in_progress exclusive challenges
C9_OneActivePerUser ==
    \A u \in Users :
        Cardinality({c \in Challenges :
            /\ Exclusive(c)
            /\ challenges[c].status = "in_progress"
            /\ challenges[c].assigned_to = u}) <= 1

\* C10: a completion of an exclusive challenge by u succeeds exactly when the
\* challenge is in_progress and assigned to u; otherwise it answers
\* NotAssigned, creates no post and leaves the challenge row unchanged
C10_CompleteOnlyByAssignee ==
    [][\A c \in Challenges, u \in Users :
         ( /\ Exclusive(c)
           /\ last'.op = "Complete" /\ last'.user = u /\ last'.challenge = c )
         => IF challenges[c].status = "in_progress" /\ challenges[c].assigned_to = u
            THEN last'.code = "OK"
            ELSE /\ last'.code = "NotAssigned"
                 /\ posts' = posts /\ post_seq' = post_seq
                 /\ challenges' = challenges]_vars

\* B's completion of the challenge A holds has just been refused
C10_Witness ==
    /\ last.op = "Complete" /\ last.code = "NotAssigned"
    /\ challenges[last.challenge].status = "in_progress"
    /\ challenges[last.challenge].assigned_to \notin {NULL, last.user}

\* C11: a pick by u of an exclusive challenge that is in_progress and
\* assigned to u answers AlreadyAssigned and leaves the challenge unchanged
C11_OwnPickIsAlreadyAssigned ==
    [][\A c \in Challenges, u \in Users :
         ( /\ Exclusive(c)
           /\ challenges[c].status = "in_progress"
           /\ challenges[c].assigned_to = u
           /\ last'.op = "Pick" /\ last'.user = u /\ last'.challenge = c )
         => (last'.code = "AlreadyAssigned" /\ challenges' = challenges)]_vars

\* C12: a successful completion of an open challenge creates the post, sets
\* the caller's submission to it, leaves the challenges table unchanged,
\* reports 0 points earned and changes nobody's total_points
C12_OpenCompleteEarnsNothing ==
    [][\A c \in Challenges, u \in Users :
         ( /\ Open(c)
           /\ last'.op = "Complete" /\ last'.code = "OK"
           /\ last'.user = u /\ last'.challenge = c )
         => /\ last'.post \notin {r.id : r \in posts}
            /\ posts' = posts \cup {[id |-> last'.post, user_id |-> u,
                                      challenge_id |-> c, revoked |-> FALSE]}
            /\ SubmissionsOf(c, u)' =
                  {[challenge_id |-> c, user_id |-> u, post_id |-> last'.post]}
            /\ challenges' = challenges
            /\ last'.points_earned = 0
            /\ \A v \in Users :
                  /\ total_points(v)' = total_points(v)
                  /\ challenges_completed(v)' = challenges_completed(v)]_vars

\* a user has just submitted to an open challenge already awarded to another
C12_Witness ==
    /\ Succeeded("Complete")
    /\ Open(last.challenge)
    /\ challenges[last.challenge].status = "completed"
    /\ challenges[last.challenge].completed_by \notin {NULL, last.user}

\* C13: an award succeeds only for an open challenge that is not completed
\* and a winner whose submission has a post; on a completed open challenge
\* it answers AlreadyAwarded, for a winner without a submitted entry
\* NoSubmission, and a failed award leaves the challenges table unchanged
C13_AwardPreconditions ==
    [][\A c \in Challenges, u \in Users :
         ( last'.op = "Award" /\ last'.challenge = c /\ last'.user = u )
         => LET submitted == \E s \in submissions :
                    s.challenge_id = c /\ s.user_id = u /\ s.post_id # NoPost
            IN /\ last'.code = "OK" =>
                    (Open(c) /\ challenges[c].status # "completed" /\ submitted)
               /\ (Open(c) /\ challenges[c].status = "completed") =>
                    last'.code = "AlreadyAwarded"
               /\ (Open(c) /\ challenges[c].status # "completed" /\ ~submitted) =>
                    last'.code = "NoSubmission"
               /\ last'.code # "OK" => challenges' = challenges]_vars

\* an award to a user who joined but has not submitted was just refused
C13_Witness ==
    /\ last.op = "Award" /\ last.code = "NoSubmission"
    /\ \E s \in SubmissionsOf(last.challenge, last.user) : s.post_id = NoPost

\* C14: a cancel by u takes effect only on u's uncommitted claim: the
\* exclusive challenge assigned to u becomes available with no assignee, u's
\* submission to an open challenge is deleted if it has no post; otherwise
\* the answer is NotYours and challenges, submissions and posts are unchanged
C14_CancelOnlyOwnClaim ==
    [][\A c \in Challenges, u \in Users :
         ( last'.op = "Cancel" /\ last'.user = u /\ last'.challenge = c )
         => IF Exclusive(c) /\ challenges[c].assigned_to = u
            THEN /\ last'.code = "OK"
                 /\ challenges'[c].status = "available"
                 /\ challenges'[c].assigned_to = NULL
                 /\ submissions' = submissions /\ posts' = posts
            ELSE IF Open(c) /\ [challenge_id |-> c, user_id |-> u,
                                 post_id |-> NoPost] \in submissions
            THEN /\ last'.code = "OK"
                 /\ submissions' = submissions \
                       {[challenge_id |-> c, user_id |-> u, post_id |-> NoPost]}
                 /\ challenges' = challenges /\ posts' = posts
            ELSE /\ last'.code = "NotYours"
                 /\ challenges' = challenges
                 /\ submissions' = submissions /\ posts' = posts]_vars

\* a user who has submitted to an open challenge was just refused the cancel
C14_Witness ==
    /\ last.op = "Cancel" /\ last.code = "NotYours"
    /\ Open(last.challenge)
    /\ \E s \in SubmissionsOf(last.challenge, last.user) : s.post_id # NoPost

\* the ids of the rows of the posts table
PostIdsOf(rows) == {r.id : r \in rows}

\* C15 (as stated): a DeletePost by a user who is not the post's author
\* answers Forbidden, deletes no post and changes no challenge
C15_DeleteByOtherIsForbidden ==
    [][\A p \in 1..MaxPosts, u \in Users :
         ( /\ \E r \in posts : r.id = p /\ r.user_id # u
           /\ last'.op = "DeletePost" /\ last'.post = p /\ last'.user = u )
         => /\ last'.code = "Forbidden"
            /\ posts' = posts /\ challenges' = challenges]_vars

\* C15 (amended): a DeletePost by a user who is not the post's author gets
\* the very response given for a post that does not exist (404), deletes no
\* post and changes no challenge
C15_DeleteByOtherIsNotFound ==
    [][\A p \in 1..MaxPosts, u \in Users :
         ( /\ \E r \in posts : r.id = p /\ r.user_id # u
           /\ last'.op = "DeletePost" /\ last'.post = p /\ last'.user = u )
         => /\ last' = [op |-> "DeletePost", post |-> p, user |-> u,
                        code |-> "NotFound"]
            /\ posts' = posts /\ challenges' = challenges]_vars

\* a user was just refused the deletion of another user's live post, which
\* still records the completion of its challenge
C15_Witness ==
    /\ last.op = "DeletePost" /\ last.code = "NotFound"
    /\ \E r \in posts :
          /\ r.id = last.post /\ r.user_id # last.user /\ ~r.revoked
          /\ challenges[r.challenge_id].completed_post_id = r.id

\* C16: while a challenge is completed or the clock is outside its window,
\* no pick of it succeeds, and no step of a pick of it changes the
\* challenges table or inserts a submission
C16_NoPickOutsideWindowOrCompleted ==
    [][\A c \in Challenges :
         (challenges[c].status = "completed" \/ ~InWindow(c)) =>
            /\ ~(last'.op = "Pick" /\ last'.challenge = c /\ last'.code = "OK")
            /\ (last'.op = "Pick" /\ last'.challenge = c) =>
                  (challenges' = challenges /\ submissions' = submissions)]_vars

\* C17: an open challenge is never in_progress and never has an assignee;
\* no step of PickChallenge, CancelChallenge or CompleteChallenge changes its
\* row, and only an award makes it completed
C17_OpenRowUntouched ==
    /\ [](\A c \in Challenges :
            Open(c) => /\ challenges[c].status # "in_progress"
                       /\ challenges[c].assigned_to = NULL)
    /\ [][\A c \in Challenges :
            Open(c) =>
               /\ (last'.op \in {"Pick", "Cancel", "Complete"} \/ pending' # pending)
                     => challenges'[c] = challenges[c]
               /\ (challenges[c].status # "completed" /\
                   challenges'[c].status = "completed")
                     => (last'.op = "Award" /\ challenges[c].status = "available")]_vars

\* two users have joined an open challenge and one has just submitted; the
\* challenge is still available
C17_Witness ==
    /\ Succeeded("Complete")
    /\ Open(last.challenge)
    /\ challenges[last.challenge] = NewChallenge
    /\ Cardinality(submissions) = 2

\* C18: a successful RevokePostPoints keeps every post row, the revoked one
\* with revoked = TRUE and otherwise as it was, so the set of post ids is
\* unchanged; a successful DeletePost removes the post's row
C18_RevokeKeepsPostRow ==
    [][\A p \in 1..MaxPosts :
         /\ (last'.op = "Revoke" /\ last'.code = "OK" /\ last'.post = p) =>
               /\ PostIdsOf(posts') = PostIdsOf(posts)
               /\ \E r \in posts :
                     /\ r.id = p
                     /\ posts' = (posts \ {r}) \cup {[r EXCEPT !.revoked = TRUE]}
         /\ (last'.op = "DeletePost" /\ last'.code = "OK" /\ last'.post = p) =>
               /\ p \in PostIdsOf(posts)
               /\ PostIdsOf(posts') = PostIdsOf(posts) \ {p}]_vars

\* one of two posts has just been revoked: both rows are still there
C18_Witness ==
    /\ Succeeded("Revoke")
    /\ PostIdsOf(posts) = {1, 2}
    /\ \E r \in posts : r.id = last.post /\ r.revoked
    /\ \E r \in posts : r.id # last.post /\ ~r.revoked

\* C19: right after RevokePostPoints(p) has returned, a second
\* RevokePostPoints(p) cannot change a challenge, a post, a submission or
\* any user's computed stats
C19_RevokeTwiceIsRevokeOnce ==
    last.op = "Revoke" =>
        ~ENABLED ( /\ RevokePostPoints(last.post)
                   /\ \/ <<challenges, posts, post_seq, submissions>>' #
                            <<challenges, posts, post_seq, submissions>>
                      \/ \E u \in Users :
                            \/ total_points(u)' # total_points(u)
                            \/ challenges_completed(u)' # challenges_completed(u) )

\* a post has just been revoked, its challenge is back to a fresh row, and
\* another post is still live
C19_Witness ==
    /\ Succeeded("Revoke")
    /\ challenges[last.challenge] = NewChallenge
    /\ \E r \in posts : r.id = last.post /\ r.revoked
    /\ \E r \in posts : r.id # last.post /\ ~r.revoked

\* C20: every post that is not revoked and belongs to an exclusive challenge
\* has its challenge completed with completed_post_id pointing at it
C20_LivePostProvesCompletion ==
    \A r \in posts :
        (~r.revoked /\ r.challenge_id \in Challenges /\ Exclusive(r.challenge_id)) =>
            /\ challenges[r.challenge_id].status = "completed"
            /\ challenges[r.challenge_id].completed_post_id = r.id

\* the requests that run in a transaction
TxOps == {"Complete", "Award", "Revoke", "DeletePost"}

\* a step in which a transaction ends without committing, or a request
\* returns after its checks, changes no committed row
FailureChangesNothing ==
    (last'.op \in TxOps /\ last'.code # "OK") =>
        UNCHANGED <<challenges, posts, post_seq, submissions>>

\* a step that adds a post also makes the update that goes with it
PostComesWithItsUpdate ==
    \A r \in {x \in posts' : x.id \notin PostIdsOf(posts)} :
        IF Exclusive(r.challenge_id)
        THEN challenges'[r.challenge_id] = CompletedRow(r.user_id, r.id)
        ELSE [challenge_id |-> r.challenge_id, user_id |-> r.user_id,
              post_id |-> r.id] \in submissions'

\* C21: CompleteChallenge, AwardChallenge, RevokePostPoints and DeletePost
\* are all-or-nothing: a request that fails or aborts between statements
\* leaves the committed rows as they were, no step shows a new post without
\* its challenge or submission update, and no committed state has
\* completed_by set while the status is in_progress
C21_AllOrNothing ==
    /\ [](\A c \in Challenges :
            challenges[c].completed_by # NULL => challenges[c].status # "in_progress")
    /\ [][FailureChangesNothing /\ PostComesWithItsUpdate]_vars

\* C22: an exclusive challenge becomes completed only in a step from
\* in_progress, by a completion of the user it was assigned to in the state
\* before, who becomes completed_by; never from available, never over
\* another user's assignment
C22_CompletedOnlyFromInProgress ==
    [][\A c \in Challenges :
         Exclusive(c) =>
            /\ (challenges[c].status # "completed" /\
                challenges'[c].status = "completed") =>
                  /\ challenges[c].status = "in_progress"
                  /\ challenges[c].assigned_to # NULL
                  /\ challenges'[c].completed_by = challenges[c].assigned_to
                  /\ last'.op = "Complete" /\ last'.code = "OK"
            /\ (last'.op = "Complete" /\ last'.code = "OK" /\ last'.challenge = c) =>
                  challenges[c].assigned_to = last'.user]_vars

\* an exclusive challenge has just been completed for the second time,
\* after the first completion was undone
C22_Witness ==
    /\ Succeeded("Complete")
    /\ Exclusive(last.challenge)
    /\ last.post = 2
    /\ challenges[last.challenge] = CompletedRow(last.user, 2)

\* the requests for challenge c by a user other than u that are inside a
\* transaction, or have just committed
Rivals(op, c, u) ==
    {t \in Transactions : t.op = op /\ t.challenge = c /\ t.user # u}

\* C23 (as stated): of two concurrent awards of one open challenge to two
\* different submitted users at most one succeeds and the other answers
\* AlreadyAwarded; an award never overwrites a completed challenge
C23_SecondAwardIsAlreadyAwarded ==
    [][\A c \in Challenges, u \in Users :
         ( /\ Open(c)
           /\ last'.op = "Award" /\ last'.challenge = c /\ last'.user = u
           /\ \E s \in SubmissionsOf(c, u) : s.post_id # NoPost
           /\ last'.code # "Failed"
           /\ Rivals("Award", c, u) # {} \/ challenges[c].completed_by \notin {NULL, u} )
         => /\ last'.code \in {"OK", "AlreadyAwarded"}
            /\ last'.code = "OK" => challenges[c].status # "completed"
            /\ challenges[c].status = "completed" => challenges' = challenges]_vars

\* C23 (amended): ... the other answers AlreadyAwarded or a store error
\* (500), and changes nothing; an award never overwrites a completed
\* challenge
C23_SecondAwardFails ==
    [][\A c \in Challenges, u \in Users :
         ( /\ Open(c)
           /\ last'.op = "Award" /\ last'.challenge = c /\ last'.user = u
           /\ \E s \in SubmissionsOf(c, u) : s.post_id # NoPost
           /\ Rivals("Award", c, u) # {} \/ challenges[c].completed_by \notin {NULL, u} )
         => /\ last'.code \in {"OK", "AlreadyAwarded", "Busy", "Failed"}
            /\ last'.code = "OK" =>
                  (challenges[c].status # "completed" /\ Rivals("Award", c, u) = {})
            /\ last'.code # "OK" => challenges' = challenges
            /\ challenges[c].status = "completed" => challenges' = challenges]_vars

\* an award was just refused with a store error while the award to another
\* user holds the write lock
C23_Witness ==
    /\ last.op = "Award" /\ last.code = "Busy"
    /\ \E t \in Writers :
          t.op = "Award" /\ t.challenge = last.challenge /\ t.user # last.user

\* C24: the scoring query credits each challenge to at most one user, at
\* most once
C24_CreditedAtMostOnce ==
    \A c \in Challenges :
        Cardinality(UNION {CreditedRows(u, c) : u \in Users}) <= 1

\* C25: a successful DeletePost or RevokePostPoints of a post that is not the
\* completed_post_id of its challenge leaves the challenge's status,
\* completed_by and completed_post_id, and the completer's points, unchanged
C25_OtherPostLeavesChallenge ==
    [][\A c \in Challenges, p \in 1..MaxPosts :
         ( /\ last'.op \in {"DeletePost", "Revoke"} /\ last'.code = "OK"
           /\ last'.post = p /\ last'.challenge = c
           /\ challenges[c].completed_post_id # p )
         => /\ challenges'[c].status = challenges[c].status
            /\ challenges'[c].completed_by = challenges[c].completed_by
            /\ challenges'[c].completed_post_id = challenges[c].completed_post_id
            /\ \A u \in Users : total_points(u)' = total_points(u)]_vars

\* C26: a completed challenge's completed_post_id is the id of a post that
\* exists, is not revoked, was written by completed_by and belongs to the
\* challenge
C26_CompletedPostIsLive ==
    \A c \in Challenges :
        challenges[c].status = "completed" =>
            \E r \in posts :
                /\ r.id = challenges[c].completed_post_id
                /\ ~r.revoked
                /\ r.user_id = challenges[c].completed_by
                /\ r.challenge_id = c

\* C27: a submission with a post_id refers to a post that exists and has
\* the submission's user and challenge
C27_SubmissionPostExists ==
    \A s \in submissions :
        s.post_id # NoPost =>
            \E r \in posts :
                /\ r.id = s.post_id
                /\ r.user_id = s.user_id
                /\ r.challenge_id = s.challenge_id

\* C28 (as stated): of two concurrent completions of an in_progress
\* exclusive challenge by its assignee at most one succeeds, creating one
\* post, and the other answers NotAssigned and creates none
C28_SecondCompleteIsNotAssigned ==
    [][\A c \in Challenges, u \in Users :
         ( /\ Exclusive(c)
           /\ last'.op = "Complete" /\ last'.challenge = c /\ last'.user = u
           /\ last'.code # "Failed" )
         => IF last'.code = "OK"
            THEN /\ challenges[c].status = "in_progress"
                 /\ challenges[c].assigned_to = u
                 /\ Cardinality(posts') = Cardinality(posts) + 1
            ELSE /\ last'.code = "NotAssigned"
                 /\ posts' = posts /\ post_seq' = post_seq]_vars

\* C28 (amended): ... and the other answers NotAssigned or a store error
\* (500) and creates none
C28_SecondCompleteFails ==
    [][\A c \in Challenges, u \in Users :
         ( /\ Exclusive(c)
           /\ last'.op = "Complete" /\ last'.challenge = c /\ last'.user = u )
         => IF last'.code = "OK"
            THEN /\ challenges[c].status = "in_progress"
                 /\ challenges[c].assigned_to = u
                 /\ Cardinality(posts') = Cardinality(posts) + 1
                 /\ challenges'[c].status = "completed"
            ELSE /\ last'.code \in {"NotAssigned", "Busy", "Failed"}
                 /\ posts' = posts /\ post_seq' = post_seq
                 /\ challenges' = challenges]_vars

\* the assignee's completion was just refused with a store error while
\* their other completion of the same challenge holds the write lock
C28_Witness ==
    /\ last.op = "Complete" /\ last.code = "Busy"
    /\ Exclusive(last.challenge)
    /\ \E t \in Writers :
          t.op = "Complete" /\ t.challenge = last.challenge /\ t.user = last.user

\* C29: no completion of an open challenge succeeds while the challenge is
\* completed
C29_NoCompleteOnAwarded ==
    [][\A c \in Challenges :
         (Open(c) /\ challenges[c].status = "completed") =>
            ~(last'.op = "Complete" /\ last'.code = "OK" /\ last'.challenge = c)]_vars

\* C30: every post of an open challenge is the post_id of its author's
\* submission to that challenge
C30_OpenPostHasSubmission ==
    \A r \in posts :
        (r.challenge_id \in Challenges /\ Open(r.challenge_id)) =>
            [challenge_id |-> r.challenge_id, user_id |-> r.user_id,
             post_id |-> r.id] \in submissions

\* a user's cancel was just refused because their submission has a post
C30_Witness ==
    /\ last.op = "Cancel" /\ last.code = "NotYours"
    /\ Open(last.challenge)
    /\ \E r \in posts : r.user_id = last.user /\ r.challenge_id = last.challenge
====
